---- MODULE Spec2Model ----
(***************************************************************************)
(* Model of src/db.py: the PostgresDb gateway.  One process-wide instance  *)
(* and connection (class attributes _instance, _connection), created by    *)
(* __new__, and five operations that build SQL text and execute it on the  *)
(* shared connection.                                                      *)
(***************************************************************************)
EXTENDS Integers, Sequences, FiniteSets, TLC

VARIABLES
    _instance,     \* PostgresDb._instance: NoneRef or the id of the gateway object
    _connection,   \* PostgresDb._connection: NoneRef or an index into handles
    objects,       \* number of gateway objects allocated by super().__new__
    handles,       \* the connections psycopg2.connect has opened, each [autocommit]
    returned,      \* <<instance, connection>> of every construction that returned
    lastNew,       \* the last construction: how it ended, and whether it created
    call           \* the last operation call: its arguments and what it did

vars == <<_instance, _connection, objects, handles, returned, lastNew, call>>

\* ------------------------------------------------------------------ bounds
MaxCols == 2       \* longest columns list/tuple passed to select
MaxFields == 2     \* largest columns_and_values dict passed to insert/update

\* ------------------------------------------------------- Python values
NoneRef == 0

PyVal(t, str, int, its) == [type |-> t, s |-> str, i |-> int, items |-> its]
PyNone == PyVal("NoneType", "", 0, <<>>)
PyStr(str) == PyVal("str", str, 0, <<>>)
PyInt(int) == PyVal("int", "", int, <<>>)
PyList(its) == PyVal("list", "", 0, its)
PyTuple(its) == PyVal("tuple", "", 0, its)
PyDict(its) == PyVal("dict", "", 0, its)       \* items: <<key, value>> in insertion order
Missing == PyVal("<missing>", "", 0, <<>>)   \* a positional argument the caller left out

isinstance(v, t) == v.type = t
is_None(v) == v.type = "NoneType"

Digits == <<"0", "1", "2", "3", "4", "5", "6", "7", "8", "9">>

RECURSIVE NatToStr(_)
NatToStr(n) ==
    IF n < 10 THEN Digits[n + 1]
    ELSE NatToStr(n \div 10) \o Digits[(n % 10) + 1]

\* str(value) for the non-string values the model passes
py_str(v) ==
    CASE v.type = "int" -> (IF v.i < 0 THEN "-" \o NatToStr(-v.i) ELSE NatToStr(v.i))
      [] v.type = "NoneType" -> "None"
      [] OTHER -> v.s

\* join that writes the separator after every element, the last included
RECURSIVE join_trailing_sep(_, _)
join_trailing_sep(sep, strs) ==
    IF Len(strs) = 0 THEN ""
    ELSE strs[1] \o sep \o join_trailing_sep(sep, Tail(strs))

\* sep.join(strs) for a sequence of TLA+ strings
RECURSIVE join(_, _)
join(sep, strs) ==
    IF Len(strs) = 0 THEN ""
    ELSE IF Len(strs) = 1 THEN strs[1]
    ELSE strs[1] \o sep \o join(sep, Tail(strs))

\* ------------------------------------------------------- call outcomes
ErrTable == "Argument table_name (name of table) need to be type string"
ErrColumns == "Argument columns (list of columns) need to be types list or tuple"
ErrWhere == "Argument where (condition for filtering) need to be type string"
ErrDict == "Argument columns_and_values (columns and it's values) need to be type dict"
ErrKeys == "All keys of columns_and_values (columns and it's values) need to be type string"

Outcome(o, v, msg, rws, e, c, st, y) ==
    [outcome |-> o, value |-> v, message |-> msg, rows |-> rws, exc |-> e,
     cursors |-> c, stmts |-> st, yielded |-> y]

\* return {'status': 'Error', 'message': msg}, after c cursors were obtained
ErrorDescriptor(msg, c) == Outcome("returned", "Error", msg, <<>>, "", c, <<>>, <<>>)

\* an exception escapes the call
Raised(e, c, st) == Outcome("raised", "", "", <<>>, e, c, st, <<>>)

\* cursor.execute(query) and, for select, return cursor.fetchall()
execute(query, db, fetch) ==
    IF db.fails THEN Raised("psycopg2.Error", 1, <<query>>)
    ELSE IF fetch THEN Outcome("returned", "rows", "", db.rows, "", 1, <<query>>, db.rows)
    ELSE Outcome("returned", "None", "", <<>>, "", 1, <<query>>, <<>>)

\* ------------------------------------------------------- dict helpers
\* columns_and_values.keys() / .values(), in the dict's iteration order
keys(d) == [k \in 1..Len(d.items) |-> d.items[k][1]]
values(d) == [k \in 1..Len(d.items) |-> d.items[k][2]]

AllStr(seq) == \A k \in 1..Len(seq) : isinstance(seq[k], "str")
strs(seq) == [k \in 1..Len(seq) |-> seq[k].s]

\* serialization that quotes every value, strings and non-strings alike
serialize_quotes_all(value) ==
    "\"" \o (IF ~isinstance(value, "str") THEN py_str(value) ELSE value.s) \o "\""

\* one step of the value loop: str(value) for a non-string, "value" for a string
serialize(value) ==
    IF ~isinstance(value, "str") THEN py_str(value)
    ELSE "\"" \o value.s \o "\""

\* pairing that gives every column the first value
zip_assign_first_value(columns, vals) ==
    [k \in 1..Len(columns) |-> columns[k].s \o "=" \o vals[1]]

\* zip(columns, values) rendered as column=value
zip_assign(columns, vals) ==
    LET n == IF Len(columns) < Len(vals) THEN Len(columns) ELSE Len(vals)
    IN  [k \in 1..n |-> columns[k].s \o "=" \o vals[k]]

\* ------------------------------------------------------- the operations
select(table_name, columns, where, db) ==
    IF ~isinstance(table_name, "str") THEN ErrorDescriptor(ErrTable, 0)
    ELSE IF ~is_None(columns) /\ ~isinstance(columns, "list") /\ ~isinstance(columns, "tuple")
    THEN ErrorDescriptor(ErrColumns, 0)
    ELSE IF ~is_None(where) /\ ~isinstance(where, "str") THEN ErrorDescriptor(ErrWhere, 0)
    ELSE IF _connection = NoneRef THEN Raised("AttributeError", 0, <<>>)
    ELSE IF is_None(columns) THEN
        LET query == "SELECT * FROM " \o table_name.s
        IN  IF ~is_None(where) THEN execute(query \o " WHERE " \o where.s, db, TRUE)
            ELSE execute(query, db, TRUE)
    ELSE IF ~AllStr(columns.items) THEN Raised("TypeError", 1, <<>>)
    ELSE
        LET cols == join(", ", strs(columns.items))
            query == "SELECT " \o cols \o " FROM " \o table_name.s
        IN  IF ~is_None(where) THEN execute(query \o " WHERE " \o where.s, db, TRUE)
            ELSE execute(query, db, TRUE)

insert(table_name, columns_and_values, db) ==
    IF ~isinstance(table_name, "str") THEN ErrorDescriptor(ErrTable, 0)
    ELSE IF ~isinstance(columns_and_values, "dict") THEN ErrorDescriptor(ErrDict, 0)
    ELSE IF _connection = NoneRef THEN Raised("AttributeError", 0, <<>>)
    ELSE IF ~AllStr(keys(columns_and_values)) THEN ErrorDescriptor(ErrKeys, 1)
    ELSE
        LET columns == join(", ", strs(keys(columns_and_values)))
            vals == join(", ", [k \in 1..Len(columns_and_values.items) |->
                                    serialize(values(columns_and_values)[k])])
            query == "INSERT INTO " \o table_name.s \o " (" \o columns \o ") VALUES ("
                     \o vals \o ")"
        IN  execute(query, db, FALSE)

update(table_name, columns_and_values, where, db) ==
    IF ~isinstance(table_name, "str") THEN ErrorDescriptor(ErrTable, 0)
    ELSE IF ~isinstance(columns_and_values, "dict") THEN ErrorDescriptor(ErrDict, 0)
    ELSE IF ~is_None(where) /\ ~isinstance(where, "str") THEN ErrorDescriptor(ErrWhere, 0)
    ELSE IF _connection = NoneRef THEN Raised("AttributeError", 0, <<>>)
    ELSE IF ~AllStr(keys(columns_and_values)) THEN ErrorDescriptor(ErrKeys, 1)
    ELSE
        LET columns == keys(columns_and_values)
            vals == [k \in 1..Len(columns_and_values.items) |->
                        serialize(values(columns_and_values)[k])]
            query == "UPDATE " \o table_name.s \o " SET "
                     \o join(", ", zip_assign(columns, vals))
        IN  IF ~is_None(where) THEN execute(query \o " WHERE " \o where.s, db, FALSE)
            ELSE execute(query, db, FALSE)

\* delete whose where defaults to None and then deletes every row
delete_where_optional(table_name, where, db) ==
    IF ~isinstance(table_name, "str") THEN ErrorDescriptor(ErrTable, 0)
    ELSE IF where = Missing \/ is_None(where) THEN
        IF _connection = NoneRef THEN Raised("AttributeError", 0, <<>>)
        ELSE execute("DELETE FROM " \o table_name.s, db, FALSE)
    ELSE IF ~isinstance(where, "str") THEN ErrorDescriptor(ErrWhere, 0)
    ELSE IF _connection = NoneRef THEN Raised("AttributeError", 0, <<>>)
    ELSE execute("DELETE FROM " \o table_name.s \o " WHERE " \o where.s, db, FALSE)

\* where has no default: a call that leaves it out never enters the body
delete(table_name, where, db) ==
    IF where = Missing THEN Raised("TypeError", 0, <<>>)
    ELSE IF ~isinstance(table_name, "str") THEN ErrorDescriptor(ErrTable, 0)
    ELSE IF ~isinstance(where, "str") THEN ErrorDescriptor(ErrWhere, 0)
    ELSE IF _connection = NoneRef THEN Raised("AttributeError", 0, <<>>)
    ELSE execute("DELETE FROM " \o table_name.s \o " WHERE " \o where.s, db, FALSE)

\* clear_table that takes the cursor before looking at its argument
clear_table_unchecked(table_name, db) ==
    IF _connection = NoneRef THEN Raised("AttributeError", 0, <<>>)
    ELSE IF ~isinstance(table_name, "str") THEN ErrorDescriptor(ErrTable, 1)
    ELSE execute("DELETE FROM " \o table_name.s, db, FALSE)

clear_table(table_name, db) ==
    IF ~isinstance(table_name, "str") THEN ErrorDescriptor(ErrTable, 0)
    ELSE IF _connection = NoneRef THEN Raised("AttributeError", 0, <<>>)
    ELSE execute("DELETE FROM " \o table_name.s, db, FALSE)

\* ------------------------------------------------------- inputs
SeqsUpTo(S, n) == UNION {[1..k -> S] : k \in 0..n}

TableArgs == {PyStr("t"), PyStr("users"), PyInt(5), PyNone}
WhereArgs == {PyNone, PyStr("x=1"), PyStr("id=5"), PyStr(""), PyInt(7)}
ColElems == {PyStr("a"), PyStr("b"), PyInt(1)}
ColumnArgs ==
    {PyNone, PyStr("a"), PyInt(3)}
    \cup {PyList(q) : q \in SeqsUpTo(ColElems, MaxCols)}
    \cup {PyTuple(q) : q \in SeqsUpTo(ColElems, MaxCols)}
KeySet == {PyStr("a"), PyStr("b"), PyInt(1)}
ValueSet == {PyInt(1), PyInt(12), PyInt(-3), PyStr("x"), PyNone}
DistinctKeys(q) == \A j, k \in 1..Len(q) : j # k => q[j][1] # q[k][1]
FieldArgs ==
    {PyNone, PyStr("a=1"), PyList(<<PyStr("a")>>)}
    \cup {PyDict(q) : q \in {r \in SeqsUpTo(KeySet \X ValueSet, MaxFields) : DistinctKeys(r)}}
RowSets == {<<>>, <<<<1>>>>, <<<<1>>, <<2>>>>}
DbOutcomes == [fails : BOOLEAN, rows : RowSets]
DbNoRows == [fails : BOOLEAN, rows : {<<>>}]

\* ------------------------------------------------------- state machine
Call(op, table_name, columns, columns_and_values, where, out) ==
    [op |-> op, table_name |-> table_name, columns |-> columns,
     columns_and_values |-> columns_and_values, where |-> where,
     after |-> columns_and_values, out |-> out]

\* the caller is between calls
NoCall ==
    Call("none", PyNone, PyNone, PyNone, PyNone,
         Outcome("none", "", "", <<>>, "", 0, <<>>, <<>>))

Init ==
    /\ _instance = NoneRef
    /\ _connection = NoneRef
    /\ objects = 0
    /\ handles = <<>>
    /\ returned = {}
    /\ lastNew = [outcome |-> "none", created |-> FALSE]
    /\ call = NoCall

\* __new__ without the _instance test: every construction allocates and connects
New_reconnects ==
    /\ objects' = objects + 1
    /\ _instance' = objects + 1
    /\ \E connected \in BOOLEAN :
         IF connected
         THEN /\ handles' = Append(handles, [autocommit |-> TRUE])
              /\ _connection' = Len(handles) + 1
              /\ returned' = returned \cup {<<objects + 1, Len(handles) + 1>>}
              /\ lastNew' = [outcome |-> "returned", created |-> TRUE]
         ELSE /\ UNCHANGED <<handles, _connection, returned>>
              /\ lastNew' = [outcome |-> "raised", created |-> TRUE]
    /\ UNCHANGED call

\* PostgresDb(): __new__
New ==
    /\ IF _instance = NoneRef
       THEN /\ objects' = objects + 1
            /\ _instance' = objects + 1
            /\ \E connected \in BOOLEAN :
                 IF connected
                 THEN /\ handles' = Append(handles, [autocommit |-> TRUE])
                      /\ _connection' = Len(handles) + 1
                      /\ returned' = returned \cup {<<objects + 1, Len(handles) + 1>>}
                      /\ lastNew' = [outcome |-> "returned", created |-> TRUE]
                 ELSE /\ UNCHANGED <<handles, _connection, returned>>
                      /\ lastNew' = [outcome |-> "raised", created |-> TRUE]
       ELSE /\ returned' = returned \cup {<<_instance, _connection>>}
            /\ lastNew' = [outcome |-> "returned", created |-> FALSE]
            /\ UNCHANGED <<_instance, _connection, objects, handles>>
    /\ UNCHANGED call

\* an operation is called on a gateway some construction returned, by a
\* synchronous caller that is not inside another call
HaveGateway == returned # {} /\ call = NoCall
Frame == UNCHANGED <<_instance, _connection, objects, handles, returned, lastNew>>

CallSelect ==
    /\ HaveGateway
    /\ \E t \in TableArgs, c \in ColumnArgs, w \in WhereArgs, db \in DbOutcomes :
         call' = Call("select", t, c, PyNone, w, select(t, c, w, db))
    /\ Frame

CallInsert ==
    /\ HaveGateway
    /\ \E t \in TableArgs, f \in FieldArgs, db \in DbNoRows :
         call' = Call("insert", t, PyNone, f, PyNone, insert(t, f, db))
    /\ Frame

CallUpdate ==
    /\ HaveGateway
    /\ \E t \in TableArgs, f \in FieldArgs, w \in WhereArgs, db \in DbNoRows :
         call' = Call("update", t, PyNone, f, w, update(t, f, w, db))
    /\ Frame

CallDelete ==
    /\ HaveGateway
    /\ \E t \in TableArgs, w \in WhereArgs \cup {Missing}, db \in DbNoRows :
         call' = Call("delete", t, PyNone, PyNone, w, delete(t, w, db))
    /\ Frame

CallClearTable ==
    /\ HaveGateway
    /\ \E t \in TableArgs, db \in DbNoRows :
         call' = Call("clear_table", t, PyNone, PyNone, PyNone, clear_table(t, db))
    /\ Frame

\* the caller takes the result (or the exception) and goes on
Return ==
    /\ call # NoCall
    /\ call' = NoCall
    /\ Frame

Next ==
    \/ New
    \/ CallSelect
    \/ CallInsert
    \/ CallUpdate
    \/ CallDelete
    \/ CallClearTable
    \/ Return

Spec == Init /\ [][Next]_vars

\* ======================================================= claims
\* What the claims expect, written from their wording and not from the code.

Ops == {"select", "insert", "update", "delete", "clear_table"}
Executed == call.out.stmts
Returned == call.out.outcome = "returned"
IsErrorDescriptor == Returned /\ call.out.value = "Error"
ConnectionLive == _connection # NoneRef

\* names joined by ", " in the given order, built from the right
RECURSIVE CommaList(_)
CommaList(q) ==
    IF Len(q) = 0 THEN ""
    ELSE IF Len(q) = 1 THEN q[1]
    ELSE CommaList(SubSeq(q, 1, Len(q) - 1)) \o ", " \o q[Len(q)]

\* the text a value is expected to appear as in a statement
Repr(v) ==
    CASE v = PyInt(1) -> "1"
      [] v = PyInt(12) -> "12"
      [] v = PyInt(-3) -> "-3"
      [] v = PyNone -> "None"
      [] v = PyStr("x") -> "\"x\""
      [] OTHER -> "?"

IsSeqOfStr(c) ==
    /\ c.type \in {"list", "tuple"}
    /\ \A k \in 1..Len(c.items) : c.items[k].type = "str"
IsStrKeyedDict(f) ==
    /\ f.type = "dict"
    /\ \A k \in 1..Len(f.items) : f.items[k][1].type = "str"
OptionalStr(w) == w.type \in {"NoneType", "str"}
WhereClause(w) == IF w.type = "NoneType" THEN "" ELSE " WHERE " \o w.s

ValidSelect ==
    /\ call.op = "select"
    /\ call.table_name.type = "str"
    /\ call.columns.type = "NoneType" \/ IsSeqOfStr(call.columns)
    /\ OptionalStr(call.where)
ValidInsert ==
    /\ call.op = "insert"
    /\ call.table_name.type = "str"
    /\ IsStrKeyedDict(call.columns_and_values)
ValidUpdate ==
    /\ call.op = "update"
    /\ call.table_name.type = "str"
    /\ IsStrKeyedDict(call.columns_and_values)
    /\ OptionalStr(call.where)
ValidDelete ==
    /\ call.op = "delete"
    /\ call.table_name.type = "str"
    /\ call.where.type = "str"
ValidClearTable ==
    /\ call.op = "clear_table"
    /\ call.table_name.type = "str"

ExpectedSelect ==
    "SELECT "
    \o (IF call.columns.type = "NoneType" THEN "*"
        ELSE CommaList([k \in 1..Len(call.columns.items) |-> call.columns.items[k].s]))
    \o " FROM " \o call.table_name.s \o WhereClause(call.where)
ExpectedInsert ==
    LET f == call.columns_and_values.items
    IN  "INSERT INTO " \o call.table_name.s
        \o " (" \o CommaList([k \in 1..Len(f) |-> f[k][1].s]) \o ")"
        \o " VALUES (" \o CommaList([k \in 1..Len(f) |-> Repr(f[k][2])]) \o ")"
ExpectedUpdate ==
    LET f == call.columns_and_values.items
    IN  "UPDATE " \o call.table_name.s \o " SET "
        \o CommaList([k \in 1..Len(f) |-> f[k][1].s \o "=" \o Repr(f[k][2])])
        \o WhereClause(call.where)

\* C1: every operation called with a table argument that is not a string
\* returns the table_name error descriptor and makes no call on the shared
\* connection: no cursor is obtained, no statement is executed.  (A delete
\* call that leaves where out binds no arguments at all; C7 covers it.)
C1_NonStringTableRejected ==
    (call.op \in Ops /\ call.table_name.type # "str" /\ call.where # Missing)
    => /\ IsErrorDescriptor
       /\ call.out.message = "Argument table_name (name of table) need to be type string"
       /\ call.out.cursors = 0
       /\ Executed = <<>>

C1_Witness ==
    /\ call.op = "clear_table"
    /\ call.table_name = PyInt(5)
    /\ ConnectionLive
    /\ IsErrorDescriptor

\* C2: a select call that violates a precondition (table not a string;
\* columns given but not a list/tuple of strings; where given but not a
\* string) returns an error descriptor, raises nothing and executes nothing.
\* Stated on a live connection.
C2_SelectPreconditionErrors ==
    (call.op = "select" /\ ~ValidSelect /\ ConnectionLive)
    => (IsErrorDescriptor /\ Executed = <<>>)

\* C3: every construction that returned gave the same instance bound to the
\* same connection handle, which is still the current one, and the database
\* connection has been opened at most once.
C3_Singleton ==
    /\ Cardinality(returned) <= 1
    /\ \A r \in returned : r[1] = _instance /\ r[2] = _connection
    /\ Len(handles) <= 1
    /\ objects <= 1

C3_Witness ==
    /\ lastNew = [outcome |-> "returned", created |-> FALSE]
    /\ ConnectionLive
    /\ returned = {<<_instance, _connection>>}

\* C4: a valid select call executes no statement other than
\* SELECT <cols> FROM <table>[ WHERE <where>], with WHERE present exactly
\* when where is not None and <cols> being * or the names joined by ", ";
\* on a live connection it executes that statement once, and when it returns
\* it returns the rows the database yielded.
C4_SelectStatement ==
    ValidSelect
    => /\ Executed \in {<<>>, <<ExpectedSelect>>}
       /\ ConnectionLive => Executed = <<ExpectedSelect>>
       /\ Returned => /\ Executed = <<ExpectedSelect>>
                      /\ call.out.value = "rows"
                      /\ call.out.rows = call.out.yielded
       /\ (/\ call.table_name = PyStr("t")
           /\ call.columns = PyList(<<PyStr("a"), PyStr("b")>>)
           /\ call.where = PyStr("x=1")
           /\ Returned) => Executed = <<"SELECT a, b FROM t WHERE x=1">>
       /\ (/\ call.table_name = PyStr("t")
           /\ call.columns = PyNone
           /\ call.where = PyNone
           /\ Returned) => Executed = <<"SELECT * FROM t">>

C4_Witness ==
    /\ ValidSelect
    /\ call.columns = PyTuple(<<PyStr("b"), PyStr("a")>>)
    /\ call.where = PyStr("id=5")
    /\ Returned
    /\ call.out.rows = <<<<1>>, <<2>>>>

\* C5: a valid insert call executes no statement other than
\* INSERT INTO <table> (<cols>) VALUES (<vals>), columns and values in the
\* mapping's order, a string value in double quotes and any other value as
\* its string representation; on a live connection it executes it once.
C5_InsertStatement ==
    ValidInsert
    => /\ Executed \in {<<>>, <<ExpectedInsert>>}
       /\ ConnectionLive => Executed = <<ExpectedInsert>>
       /\ Returned => Executed = <<ExpectedInsert>> /\ call.out.value = "None"
       /\ (/\ call.table_name = PyStr("t")
           /\ call.columns_and_values =
                  PyDict(<< <<PyStr("a"), PyInt(1)>>, <<PyStr("b"), PyStr("x")>> >>)
           /\ Returned) => Executed = <<"INSERT INTO t (a, b) VALUES (1, \"x\")">>

C5_Witness ==
    /\ ValidInsert
    /\ call.columns_and_values =
           PyDict(<< <<PyStr("b"), PyStr("x")>>, <<PyStr("a"), PyInt(12)>> >>)
    /\ Returned
    /\ Executed = <<"INSERT INTO users (b, a) VALUES (\"x\", 12)">>

\* C6: a valid update call executes no statement other than
\* UPDATE <table> SET c1=v1, c2=v2, ...[ WHERE <where>], each column with
\* its own serialized value in mapping order and WHERE present exactly when
\* where is not None; on a live connection it executes it once.
C6_UpdateStatement ==
    ValidUpdate
    => /\ Executed \in {<<>>, <<ExpectedUpdate>>}
       /\ ConnectionLive => Executed = <<ExpectedUpdate>>
       /\ Returned => Executed = <<ExpectedUpdate>> /\ call.out.value = "None"
       /\ (/\ call.table_name = PyStr("t")
           /\ call.columns_and_values = PyDict(<< <<PyStr("a"), PyInt(12)>> >>)
           /\ Returned)
          => \/ call.where = PyStr("id=5") /\ Executed = <<"UPDATE t SET a=12 WHERE id=5">>
             \/ call.where = PyNone /\ Executed = <<"UPDATE t SET a=12">>
             \/ call.where \notin {PyStr("id=5"), PyNone}

C6_Witness ==
    /\ ValidUpdate
    /\ call.where = PyNone
    /\ Returned
    /\ Executed = <<"UPDATE users SET b=\"x\", a=-3">>

\* C7: every statement delete executes is DELETE FROM <table> WHERE <where>
\* with the caller's string filter; a delete call with no filter or a
\* non-string filter is rejected and executes nothing; and the unfiltered
\* DELETE FROM <table> of a call's table is executed only by clear_table.
C7_DeleteSplit ==
    /\ call.op = "delete"
       => /\ \A k \in 1..Len(Executed) :
                /\ call.where.type = "str"
                /\ Executed[k] = "DELETE FROM " \o call.table_name.s
                                 \o " WHERE " \o call.where.s
          /\ call.where.type # "str"
             => /\ Executed = <<>>
                /\ call.out.cursors = 0
                /\ IsErrorDescriptor \/ call.out.exc = "TypeError"
          /\ (ValidDelete /\ ConnectionLive) => Len(Executed) = 1
    /\ (call.op \in Ops /\ call.table_name.type = "str")
       => \A k \in 1..Len(Executed) :
             Executed[k] = "DELETE FROM " \o call.table_name.s => call.op = "clear_table"
    /\ (ValidClearTable /\ ConnectionLive)
       => Executed = <<"DELETE FROM " \o call.table_name.s>>

C7_Witness ==
    /\ call.op = "delete"
    /\ call.where = PyNone
    /\ call.table_name = PyStr("t")
    /\ ConnectionLive
    /\ IsErrorDescriptor

\* C8: for insert and update every argument-shape failure (fields not a
\* mapping, a key that is not a string, for update a where that is given but
\* not a string) is returned as an error descriptor and executes nothing, and
\* the only exceptions that escape are the database client's.
C8_ShapeFailuresReturned ==
    /\ (call.op = "insert" /\ call.table_name.type = "str" /\ ~ValidInsert)
       => (IsErrorDescriptor /\ Executed = <<>>)
    /\ (call.op = "update" /\ call.table_name.type = "str" /\ ~ValidUpdate)
       => (IsErrorDescriptor /\ Executed = <<>>)
    /\ (call.op \in {"insert", "update"} /\ call.out.outcome = "raised")
       => (call.out.exc = "psycopg2.Error" /\ Len(Executed) = 1)

\* C9: whenever a gateway instance exists, the shared connection handle is
\* established and in autocommit mode.
C9_InstanceHasLiveConnection ==
    (_instance # NoneRef \/ returned # {})
    => /\ _connection # NoneRef
       /\ _connection \in 1..Len(handles)
       /\ handles[_connection].autocommit

\* C10: a call that passes validation executes exactly one statement, a call
\* that returns an error descriptor executes none, and the caller's column
\* map is as it was.
C10_OneStatementPerValidCall ==
    /\ (ValidSelect \/ ValidInsert \/ ValidUpdate \/ ValidDelete \/ ValidClearTable)
       => Len(Executed) = 1
    /\ IsErrorDescriptor => Executed = <<>>
    /\ call.after = call.columns_and_values

====
